---- MODULE Spec2Model ----
(***************************************************************************)
(* Tutor.py: a Streamlit script.  Every user interaction of a browser      *)
(* session re-runs the script top to bottom in that session's script       *)
(* thread; all sessions of the process share os.environ, the working       *)
(* directory and the st.cache_resource cache that decorates get_agent.     *)
(***************************************************************************)
EXTENDS Integers, Sequences, FiniteSets, TLC

\* ---------------------------------------------------------------- bounds
NumSessions == 2      \* browser sessions served by the one process
MaxRuns == 3          \* script runs (page loads and button clicks) in total
MaxLen == 1           \* longest text typed into the text area
MaxFiles == 2         \* temp files NamedTemporaryFile hands out
MaxCtor == 2          \* cap on executions of the Agent constructor

Sessions == 1..NumSessions
FileIds == 1..MaxFiles

\* ------------------------------------------------------- values of handles
NotInSession == -2    \* 'agent' not in st.session_state
Miss == -1            \* the cache of get_agent holds no entry
None == 0             \* get_agent's `return None`
\* a constructed Agent instance is the positive number of the constructor
\* execution that built it

\* ----------------------------------------------------------- text inputs
Chars == {" ", "a"}

Texts == UNION {[1..n -> Chars] : n \in 0..MaxLen}

\* Python truthiness of the text area's value in `if user_input:`
Truthy(t) == Len(t) > 0

\* what the user did to trigger a script run
Requests ==
    {[kind |-> "none", text |-> <<>>]}
    \cup {[kind |-> "text", text |-> t] : t \in Texts}
    \cup {[kind |-> k, text |-> <<>>] : k \in {"upload", "camera"}}

NoRequest == [kind |-> "none", text |-> <<>>]

SecretValues == {"absent", "empty", "valid"}

VARIABLES
    secrets,        \* st.secrets: TAVILY_KEY and GEMINI_KEY
    environ,        \* os.environ: TAVILY_API_KEY and GOOGLE_API_KEY
    cache,          \* st.cache_resource entry of get_agent()
    lock,           \* the cache's compute lock: 0 or the session holding it
    ctorCount,      \* executions of Agent(...)
    files,          \* temp files existing in the working directory
    nextFile,       \* names NamedTemporaryFile has handed out
    unlinks,        \* per file: successful os.unlink calls
    runs,           \* script runs started
    pc,             \* per session: position of the script thread
    req,            \* per session: the interaction this run handles
    session_state,  \* per session: st.session_state.agent
    agent,          \* per session: local `agent` of analyze_image
    temp_path,      \* per session: local `temp_path` of main
    shown,          \* per session: elements the run has put on the page
    remote,         \* per session: agent.run was invoked in this run
    log,            \* per session: file and analysis steps of this run
    rendered        \* per session: the tabs have been drawn once

vars == <<secrets, environ, cache, lock, ctorCount, files, nextFile, unlinks,
          runs, pc, req, session_state, agent, temp_path, shown, remote, log,
          rendered>>

globals == <<secrets, environ, cache, lock, ctorCount, files, nextFile, unlinks, runs>>

Init ==
    /\ secrets \in [tavily : SecretValues, gemini : SecretValues]
    /\ environ = [tavily |-> "absent", gemini |-> "absent"]
    /\ cache = Miss
    /\ lock = 0
    /\ ctorCount = 0
    /\ files = {}
    /\ nextFile = 0
    /\ unlinks = [f \in FileIds |-> 0]
    /\ runs = 0
    /\ pc = [s \in Sessions |-> "idle"]
    /\ req = [s \in Sessions |-> NoRequest]
    /\ session_state = [s \in Sessions |-> NotInSession]
    /\ agent = [s \in Sessions |-> NotInSession]
    /\ temp_path = [s \in Sessions |-> 0]
    /\ shown = [s \in Sessions |-> <<>>]
    /\ remote = [s \in Sessions |-> FALSE]
    /\ log = [s \in Sessions |-> <<>>]
    /\ rendered = [s \in Sessions |-> FALSE]

\* ------------------------------------------------------------ script runs
\* A page load or a widget interaction starts a run.  A button can only be
\* clicked on a page a previous run has drawn.
rerun(s, r) ==
    /\ pc[s] = "idle"
    /\ runs < MaxRuns
    /\ r.kind # "none" => rendered[s]
    /\ runs' = runs + 1
    /\ pc' = [pc EXCEPT ![s] = "start"]
    /\ req' = [req EXCEPT ![s] = r]
    /\ UNCHANGED <<secrets, environ, cache, lock, ctorCount, files, nextFile,
                   unlinks, session_state, agent, temp_path, shown, remote,
                   log, rendered>>

\* Module level, lines 39-44: copy the two secrets into os.environ; a
\* KeyError reports the key and st.stop() ends the run.
load_keys(s) ==
    /\ pc[s] = "start"
    /\ IF secrets.tavily = "absent"
       THEN /\ shown' = [shown EXCEPT ![s] = Append(@, "missing:TAVILY_KEY")]
            /\ pc' = [pc EXCEPT ![s] = "done"]
            /\ UNCHANGED environ
       ELSE IF secrets.gemini = "absent"
       THEN /\ environ' = [environ EXCEPT !.tavily = secrets.tavily]
            /\ shown' = [shown EXCEPT ![s] = Append(@, "missing:GEMINI_KEY")]
            /\ pc' = [pc EXCEPT ![s] = "done"]
       ELSE /\ environ' = [tavily |-> secrets.tavily, gemini |-> secrets.gemini]
            /\ pc' = [pc EXCEPT ![s] = "main"]
            /\ UNCHANGED shown
    /\ UNCHANGED <<secrets, cache, lock, ctorCount, files, nextFile, unlinks,
                   runs, req, session_state, agent, temp_path, remote, log,
                   rendered>>

\* main, lines 104-105: the first run of a session calls get_agent().
main_session_init(s) ==
    /\ pc[s] = "main"
    /\ pc' = [pc EXCEPT ![s] =
                IF session_state[s] = NotInSession THEN "ga_read" ELSE "tabs"]
    /\ UNCHANGED <<globals, req, session_state, agent, temp_path, shown,
                   remote, log, rendered>>

\* ------------------------------------------------------------- get_agent
\* get_agent() has two callers: main line 105 (while the session has no
\* 'agent' yet) and analyze_image line 78.  The value goes to the caller.
get_agent_return(s, v) ==
    IF session_state[s] = NotInSession
    THEN /\ session_state' = [session_state EXCEPT ![s] = v]
         /\ pc' = [pc EXCEPT ![s] = "tabs"]
         /\ UNCHANGED agent
    ELSE /\ agent' = [agent EXCEPT ![s] = v]
         /\ pc' = [pc EXCEPT ![s] = "analyze"]
         /\ UNCHANGED session_state

\* A cache hit replays the elements the cached call drew: the two st.error
\* notices of the except branch when the cached value is None.
replay(s, v) ==
    IF v = None THEN [shown EXCEPT ![s] = Append(@, "ctor_failed")] ELSE shown

\* The decorator missing: every call runs the function body.
get_agent_read_undecorated(s) ==
    /\ pc[s] = "ga_read"
    /\ pc' = [pc EXCEPT ![s] = "ga_build"]
    /\ UNCHANGED <<globals, req, session_state, agent, temp_path, shown,
                   remote, log, rendered>>

\* @st.cache_resource, line 59: look the entry up without the lock.
get_agent_read(s) ==
    /\ pc[s] = "ga_read"
    /\ IF cache # Miss
       THEN /\ get_agent_return(s, cache)
            /\ shown' = replay(s, cache)
       ELSE /\ pc' = [pc EXCEPT ![s] = "ga_lock"]
            /\ UNCHANGED <<session_state, agent, shown>>
    /\ UNCHANGED <<globals, req, temp_path, remote, log, rendered>>

\* The compute lock taken, but the entry not looked up again.
get_agent_lock_no_recheck(s) ==
    /\ pc[s] = "ga_lock"
    /\ lock = 0
    /\ lock' = s
    /\ pc' = [pc EXCEPT ![s] = "ga_build"]
    /\ UNCHANGED <<secrets, environ, cache, ctorCount, files, nextFile,
                   unlinks, runs, req, session_state, agent, temp_path,
                   shown, remote, log, rendered>>

\* @st.cache_resource, line 59: on a miss take the compute lock and look
\* the entry up again; only the caller that still misses runs the body.
get_agent_lock(s) ==
    /\ pc[s] = "ga_lock"
    /\ lock = 0
    /\ IF cache # Miss
       THEN /\ get_agent_return(s, cache)
            /\ shown' = replay(s, cache)
            /\ UNCHANGED lock
       ELSE /\ lock' = s
            /\ pc' = [pc EXCEPT ![s] = "ga_build"]
            /\ UNCHANGED <<session_state, agent, shown>>
    /\ UNCHANGED <<secrets, environ, cache, ctorCount, files, nextFile,
                   unlinks, runs, req, temp_path, remote, log, rendered>>

\* Lines 62-69: Agent(...) returns a new instance, which is cached.
get_agent_build_ok(s) ==
    /\ pc[s] = "ga_build"
    /\ ctorCount < MaxCtor
    /\ ctorCount' = ctorCount + 1
    /\ cache' = ctorCount + 1
    /\ lock' = 0
    /\ get_agent_return(s, ctorCount + 1)
    /\ UNCHANGED <<secrets, environ, files, nextFile, unlinks, runs, req,
                   temp_path, shown, remote, log, rendered>>

\* Lines 70-73: Agent(...) throws; the except branch draws the error and
\* returns None, and the decorator caches that return value.
get_agent_build_fail(s) ==
    /\ pc[s] = "ga_build"
    /\ ctorCount < MaxCtor
    /\ ctorCount' = ctorCount + 1
    /\ cache' = None
    /\ lock' = 0
    /\ shown' = [shown EXCEPT ![s] = Append(@, "ctor_failed")]
    /\ get_agent_return(s, None)
    /\ UNCHANGED <<secrets, environ, files, nextFile, unlinks, runs, req,
                   temp_path, remote, log, rendered>>

\* ------------------------------------------------------------------ tabs
\* Line 108 on: the tabs are drawn; no button was clicked in this run.
main_no_button(s) ==
    /\ pc[s] = "tabs"
    /\ req[s].kind = "none"
    /\ pc' = [pc EXCEPT ![s] = "done"]
    /\ rendered' = [rendered EXCEPT ![s] = TRUE]
    /\ UNCHANGED <<globals, req, session_state, agent, temp_path, shown,
                   remote, log>>

\* Lines 112-122, "Get Answer": `if user_input:` else the warning; inside
\* the try, st.session_state.agent.run(...) -- an attribute error on None,
\* caught by the except branch like any other exception.
main_text_button(s) ==
    /\ pc[s] = "tabs"
    /\ req[s].kind = "text"
    /\ rendered' = [rendered EXCEPT ![s] = TRUE]
    /\ IF ~Truthy(req[s].text)
       THEN /\ shown' = [shown EXCEPT ![s] = Append(@, "empty_input")]
            /\ pc' = [pc EXCEPT ![s] = "done"]
            /\ UNCHANGED remote
       ELSE IF session_state[s] = None
       THEN /\ shown' = [shown EXCEPT ![s] = Append(@, "analysis_failed")]
            /\ pc' = [pc EXCEPT ![s] = "done"]
            /\ UNCHANGED remote
       ELSE /\ remote' = [remote EXCEPT ![s] = TRUE]
            /\ pc' = [pc EXCEPT ![s] = "text_run"]
            /\ UNCHANGED shown
    /\ UNCHANGED <<globals, req, session_state, agent, temp_path, log>>

\* Lines 116-117: agent.run returns; st.markdown(response) draws the
\* response object itself (its string form), not response.content.
main_text_run_ok(s) ==
    /\ pc[s] = "text_run"
    /\ shown' = [shown EXCEPT ![s] = Append(@, "response_object")]
    /\ pc' = [pc EXCEPT ![s] = "done"]
    /\ UNCHANGED <<globals, req, session_state, agent, temp_path, remote,
                   log, rendered>>

\* The except branch also dropping every cached resource.
main_text_run_fail_clears(s) ==
    /\ pc[s] = "text_run"
    /\ shown' = [shown EXCEPT ![s] = Append(@, "analysis_failed")]
    /\ pc' = [pc EXCEPT ![s] = "done"]
    /\ cache' = Miss
    /\ session_state' = [session_state EXCEPT ![s] = NotInSession]
    /\ UNCHANGED <<secrets, environ, lock, ctorCount, files, nextFile,
                   unlinks, runs, req, agent, temp_path, remote, log,
                   rendered>>

\* Lines 118-120: agent.run throws an Exception; two st.error notices.
main_text_run_fail(s) ==
    /\ pc[s] = "text_run"
    /\ shown' = [shown EXCEPT ![s] = Append(@, "analysis_failed")]
    /\ pc' = [pc EXCEPT ![s] = "done"]
    /\ UNCHANGED <<globals, req, session_state, agent, temp_path, remote,
                   log, rendered>>

\* A script-control exception (stop or rerun requested while the run is
\* blocked in agent.run) or KeyboardInterrupt is a BaseException: the
\* `except Exception` of lines 118 and 89 does not catch it, and the run ends.
main_text_run_interrupted(s) ==
    /\ pc[s] = "text_run"
    /\ pc' = [pc EXCEPT ![s] = "done"]
    /\ UNCHANGED <<globals, req, session_state, agent, temp_path, shown,
                   remote, log, rendered>>

\* Lines 129 and 140: an analyze button was clicked.
main_image_button(s) ==
    /\ pc[s] = "tabs"
    /\ req[s].kind \in {"upload", "camera"}
    /\ rendered' = [rendered EXCEPT ![s] = TRUE]
    /\ pc' = [pc EXCEPT ![s] = "save"]
    /\ UNCHANGED <<globals, req, session_state, agent, temp_path, shown,
                   remote, log>>

\* ---------------------------------------------------- save_uploaded_file
\* Lines 93-97, called at 130 and 141: NamedTemporaryFile(delete=False)
\* creates a file under a fresh name, the bytes are written, the name is
\* returned; analyze_image is entered and calls get_agent() (line 78).
save_uploaded_file_ok(s) ==
    /\ pc[s] = "save"
    /\ nextFile < MaxFiles
    /\ nextFile' = nextFile + 1
    /\ files' = files \cup {nextFile + 1}
    /\ temp_path' = [temp_path EXCEPT ![s] = nextFile + 1]
    /\ log' = [log EXCEPT ![s] = Append(@, "materialize")]
    /\ pc' = [pc EXCEPT ![s] = "ga_read"]
    /\ UNCHANGED <<secrets, environ, cache, lock, ctorCount, unlinks, runs,
                   req, session_state, agent, shown, remote, rendered>>

\* NamedTemporaryFile cannot create the file (directory not writable): the
\* OSError leaves main uncaught and Streamlit draws it.
save_uploaded_file_open_fails(s) ==
    /\ pc[s] = "save"
    /\ shown' = [shown EXCEPT ![s] = Append(@, "uncaught_exception")]
    /\ pc' = [pc EXCEPT ![s] = "done"]
    /\ UNCHANGED <<globals, req, session_state, agent, temp_path, remote,
                   log, rendered>>

\* f.write throws after the file was created (disk full): delete=False
\* keeps the file, the OSError leaves main uncaught.
save_uploaded_file_write_fails(s) ==
    /\ pc[s] = "save"
    /\ nextFile < MaxFiles
    /\ nextFile' = nextFile + 1
    /\ files' = files \cup {nextFile + 1}
    /\ shown' = [shown EXCEPT ![s] = Append(@, "uncaught_exception")]
    /\ pc' = [pc EXCEPT ![s] = "done"]
    /\ UNCHANGED <<secrets, environ, cache, lock, ctorCount, unlinks, runs,
                   req, session_state, agent, temp_path, remote, log,
                   rendered>>

\* ---------------------------------------------------------- analyze_image
\* os.unlink moved in front of the agent.run call.
analyze_image_unlinks_first(s) ==
    /\ pc[s] = "analyze"
    /\ IF agent[s] = None
       THEN /\ pc' = [pc EXCEPT ![s] = "unlink"]
            /\ UNCHANGED <<remote, log, files, unlinks>>
       ELSE /\ files' = files \ {temp_path[s]}
            /\ unlinks' = [unlinks EXCEPT ![temp_path[s]] = @ + 1]
            /\ remote' = [remote EXCEPT ![s] = TRUE]
            /\ log' = [log EXCEPT ![s] = Append(Append(@, "release"), "run_begin")]
            /\ pc' = [pc EXCEPT ![s] = "img_run"]
    /\ UNCHANGED <<secrets, environ, cache, lock, ctorCount, nextFile, runs,
                   req, session_state, agent, temp_path, shown, rendered>>

\* Lines 79-87: return when the agent is None, else start agent.run on the
\* image path.
analyze_image(s) ==
    /\ pc[s] = "analyze"
    /\ IF agent[s] = None
       THEN /\ pc' = [pc EXCEPT ![s] = "unlink"]
            /\ UNCHANGED <<remote, log>>
       ELSE /\ remote' = [remote EXCEPT ![s] = TRUE]
            /\ log' = [log EXCEPT ![s] = Append(@, "run_begin")]
            /\ pc' = [pc EXCEPT ![s] = "img_run"]
    /\ UNCHANGED <<globals, req, session_state, agent, temp_path, shown,
                   rendered>>

\* Lines 84-88: agent.run returns; st.markdown(response.content).
analyze_image_run_ok(s) ==
    /\ pc[s] = "img_run"
    /\ shown' = [shown EXCEPT ![s] = Append(@, "content")]
    /\ log' = [log EXCEPT ![s] = Append(@, "run_end")]
    /\ pc' = [pc EXCEPT ![s] = "unlink"]
    /\ UNCHANGED <<globals, req, session_state, agent, temp_path, remote,
                   rendered>>

\* Lines 89-91: agent.run throws an Exception; two st.error notices.
analyze_image_run_fail(s) ==
    /\ pc[s] = "img_run"
    /\ shown' = [shown EXCEPT ![s] = Append(@, "analysis_failed")]
    /\ log' = [log EXCEPT ![s] = Append(@, "run_end")]
    /\ pc' = [pc EXCEPT ![s] = "unlink"]
    /\ UNCHANGED <<globals, req, session_state, agent, temp_path, remote,
                   rendered>>

\* A BaseException passes `except Exception` (line 89) and leaves main:
\* line 132/143 is not reached.
analyze_image_interrupted(s) ==
    /\ pc[s] = "img_run"
    /\ log' = [log EXCEPT ![s] = Append(@, "run_end")]
    /\ pc' = [pc EXCEPT ![s] = "done"]
    /\ UNCHANGED <<globals, req, session_state, agent, temp_path, shown,
                   remote, rendered>>

\* Lines 132 and 143: os.unlink(temp_path) removes the file.
unlink_ok(s) ==
    /\ pc[s] = "unlink"
    /\ temp_path[s] \in files
    /\ files' = files \ {temp_path[s]}
    /\ unlinks' = [unlinks EXCEPT ![temp_path[s]] = @ + 1]
    /\ log' = [log EXCEPT ![s] = Append(@, "release")]
    /\ pc' = [pc EXCEPT ![s] = "done"]
    /\ UNCHANGED <<secrets, environ, cache, lock, ctorCount, nextFile, runs,
                   req, session_state, agent, temp_path, shown, remote,
                   rendered>>

\* os.unlink throws (OSError: no permission, file in use): nothing around
\* lines 132 and 143 catches it, the file stays.
unlink_fails(s) ==
    /\ pc[s] = "unlink"
    /\ shown' = [shown EXCEPT ![s] = Append(@, "uncaught_exception")]
    /\ pc' = [pc EXCEPT ![s] = "done"]
    /\ UNCHANGED <<globals, req, session_state, agent, temp_path, remote,
                   log, rendered>>

\* The run is over; the session waits for the next interaction.
finish(s) ==
    /\ pc[s] = "done"
    /\ pc' = [pc EXCEPT ![s] = "idle"]
    /\ req' = [req EXCEPT ![s] = NoRequest]
    /\ agent' = [agent EXCEPT ![s] = NotInSession]
    /\ temp_path' = [temp_path EXCEPT ![s] = 0]
    /\ shown' = [shown EXCEPT ![s] = <<>>]
    /\ remote' = [remote EXCEPT ![s] = FALSE]
    /\ log' = [log EXCEPT ![s] = <<>>]
    /\ UNCHANGED <<globals, session_state, rendered>>

Next ==
    \E s \in Sessions :
        \/ \E r \in Requests : rerun(s, r)
        \/ load_keys(s)
        \/ main_session_init(s)
        \/ get_agent_read(s)
        \/ get_agent_lock(s)
        \/ get_agent_build_ok(s)
        \/ get_agent_build_fail(s)
        \/ main_no_button(s)
        \/ main_text_button(s)
        \/ main_text_run_ok(s)
        \/ main_text_run_fail(s)
        \/ main_text_run_interrupted(s)
        \/ main_image_button(s)
        \/ save_uploaded_file_ok(s)
        \/ save_uploaded_file_open_fails(s)
        \/ save_uploaded_file_write_fails(s)
        \/ analyze_image(s)
        \/ analyze_image_run_ok(s)
        \/ analyze_image_run_fail(s)
        \/ analyze_image_interrupted(s)
        \/ unlink_ok(s)
        \/ unlink_fails(s)
        \/ finish(s)

Spec == Init /\ [][Next]_vars

\* ================================================================ claims
Shows(s, x) == \E i \in 1..Len(shown[s]) : shown[s][i] = x

RECURSIVE LStrip(_)
LStrip(t) == IF t # <<>> /\ Head(t) = " " THEN LStrip(Tail(t)) ELSE t

RECURSIVE RStrip(_)
RStrip(t) == IF t # <<>> /\ t[Len(t)] = " " THEN RStrip(SubSeq(t, 1, Len(t) - 1)) ELSE t

\* the text after trimming (str.strip)
Trim(t) == RStrip(LStrip(t))

IsPrefix(a, b) == Len(a) <= Len(b) /\ SubSeq(b, 1, Len(a)) = a

\* C1: a failed construction of the agent handle is not cached: after
\* get_agent has failed the handle is Uninitialized again, so that a later
\* call constructs anew.
C1_FailureNotCached ==
    /\ cache # None
    /\ \A s \in Sessions : pc[s] = "idle" => session_state[s] # None

\* C2: after a successful construction every later get_agent call, from any
\* session and any request, returns that same instance, and the Agent
\* constructor has run exactly once in the process.
C2_SameInstanceBuiltOnce ==
    cache >= 1 =>
        /\ ctorCount = 1
        /\ \A s \in Sessions :
            /\ session_state[s] \in {NotInSession, cache}
            /\ agent[s] \in {NotInSession, cache}

\* an image request's get_agent call returned the instance the session
\* stored on its first run
C2_LaterCallSameInstance ==
    \E s \in Sessions :
        /\ pc[s] = "img_run"
        /\ agent[s] >= 1
        /\ agent[s] = session_state[s]

\* C3: once save_uploaded_file has returned the temp path, the file is
\* deleted exactly once on every exit path of the image request; when the
\* request is over the path no longer exists.
C3_TempFileDeletedOnce ==
    \A s \in Sessions :
        (pc[s] = "done" /\ temp_path[s] # 0) =>
            /\ temp_path[s] \notin files
            /\ unlinks[temp_path[s]] = 1

\* C4: a text that is empty after trimming gets the "Please enter a topic."
\* warning and agent.run is not invoked for it.
C4_BlankTextRejected ==
    \A s \in Sessions :
        (req[s].kind = "text" /\ Trim(req[s].text) = <<>>) =>
            /\ ~remote[s]
            /\ pc[s] = "done" => shown[s] = <<"empty_input">>

\* C5: no exception of a request (from agent.run, from writing the temp
\* file, from os.unlink) reaches the page unhandled.
C5_NoUnhandledException ==
    \A s \in Sessions : ~Shows(s, "uncaught_exception")

\* C6: with a credential absent the run reports the missing key and halts
\* without constructing a handle or handling a request; the Agent
\* constructor only ever runs with both credentials present and non-empty.
C6_KeysPresentBeforeConstruction ==
    /\ \A s \in Sessions :
        (pc[s] \notin {"idle", "start"}
            /\ (secrets.tavily = "absent" \/ secrets.gemini = "absent")) =>
            /\ pc[s] = "done"
            /\ shown[s] = <<IF secrets.tavily = "absent"
                            THEN "missing:TAVILY_KEY" ELSE "missing:GEMINI_KEY">>
            /\ ~remote[s]
            /\ ctorCount = 0
    /\ \A s \in Sessions :
        pc[s] = "ga_build" => environ = [tavily |-> "valid", gemini |-> "valid"]

\* C7: a request whose remote call threw leaves the handle as it was: the
\* cached handle and st.session_state.agent are still the one Ready
\* instance, the only one ever constructed.
C7_FailedRequestKeepsHandle ==
    \A s \in Sessions :
        (remote[s] /\ Shows(s, "analysis_failed")) =>
            /\ cache >= 1
            /\ session_state[s] = cache
            /\ agent[s] \in {NotInSession, cache}
            /\ ctorCount = 1

\* a request has ended in AnalysisFailed with the handle Ready
C7_RequestFailed ==
    \E s \in Sessions :
        /\ pc[s] = "done"
        /\ remote[s]
        /\ Shows(s, "analysis_failed")
        /\ session_state[s] >= 1

\* C8: in an image request the temp file is written before agent.run
\* begins, is deleted only after agent.run has returned or thrown, and
\* exists throughout the call.
C8_ImageStepsOrdered ==
    \A s \in Sessions :
        /\ \/ IsPrefix(log[s], <<"materialize", "run_begin", "run_end", "release">>)
           \/ log[s] = <<"materialize", "release">> /\ agent[s] = None
        /\ pc[s] = "img_run" =>
            /\ temp_path[s] \in files
            /\ unlinks[temp_path[s]] = 0

\* an image request has gone through all its steps
C8_AllStepsDone ==
    \E s \in Sessions :
        log[s] = <<"materialize", "run_begin", "run_end", "release">>

\* C9: of several sessions calling get_agent while no handle is cached only
\* one runs the Agent constructor; the others wait for it and take its
\* result, so the constructor never runs twice and all hold the same handle.
C9_SingleWinner ==
    /\ ctorCount <= 1
    /\ \A s \in Sessions : pc[s] = "ga_build" => lock = s
    /\ \A s, t \in Sessions :
        (session_state[s] # NotInSession /\ session_state[t] # NotInSession) =>
            /\ session_state[s] = session_state[t]
            /\ session_state[s] = cache

\* one caller constructs while another, which also missed, waits
C9_Race ==
    \E s, t \in Sessions :
        /\ s # t
        /\ pc[s] = "ga_build"
        /\ pc[t] = "ga_lock"

\* C10: every handled text or image request ends with exactly one outcome,
\* the response content or a reported Failure; with the handle unavailable
\* it is a Failure and agent.run is not invoked.
C10_ReturnOrFail ==
    \A s \in Sessions :
        (pc[s] = "done" /\ req[s].kind # "none") =>
            /\ Len(shown[s]) = 1
            /\ shown[s][1] \in {"content", "analysis_failed", "empty_input",
                                "ctor_failed"}
            /\ session_state[s] = None =>
                (shown[s][1] # "content" /\ ~remote[s])

====
